---- MODULE Spec2Model ----
(***************************************************************************)
(* Molecule graph featurizers of                                           *)
(* deepchem/feat/molecule_featurizers/mol_graph_conv_featurizer.py:        *)
(* MolGraphConvFeaturizer (sparse bond graph) and PAGTNFeaturizer          *)
(* (all-pairs, path-aware graph).                                          *)
(*                                                                         *)
(* Conventions.  Atom indices are 0-based as in RDKit; the atom with index *)
(* i is m.atoms[i+1].  A numpy array is a sequence of integers (booleans   *)
(* become 1/0 on conversion to float), a matrix a sequence of rows.  An    *)
(* Optional value is <<>> (None) or <<x>>.  A call's outcome is a record    *)
(* whose field exc is "" on a normal return and the exception's name when  *)
(* the call raises.  Names the file uses without defining them (utils,     *)
(* one_hot_encoding) denote the collaborators of that name.                *)
(***************************************************************************)
EXTENDS Integers, Sequences, FiniteSets, TLC

VARIABLES
  mol,                 \* the RDKit molecule: atoms, bonds, per-atom _GasteigerCharge property
  use_edges,           \* MolGraphConvFeaturizer.use_edges
  use_chirality,       \* MolGraphConvFeaturizer.use_chirality
  use_partial_charge,  \* MolGraphConvFeaturizer.use_partial_charge
  rdkit_available,     \* whether "from rdkit.Chem import AllChem" succeeds
  pc,                  \* position inside MolGraphConvFeaturizer._featurize
  n_computed,          \* ComputeGasteigerCharges runs in the current call
  n_encoded,           \* atoms encoded in the current call
  entry_annotated,     \* whether atom 0 carried _GasteigerCharge when the current call began
  computes,            \* per finished call: its number of ComputeGasteigerCharges runs
  results,             \* outcomes of the finished _featurize calls, in call order
  ctor_max_length,     \* the max_length argument PAGTNFeaturizer was constructed with
  pagtn,               \* the PAGTNFeaturizer instance
  p_op,                \* the PAGTNFeaturizer method called last
  p_args,              \* its arguments (path_atoms, ring_info)
  p_out                \* its outcome

vars == <<mol, use_edges, use_chirality, use_partial_charge, rdkit_available, pc,
          n_computed, n_encoded, entry_annotated, computes, results,
          ctor_max_length, pagtn, p_op, p_args, p_out>>

mgc_vars == <<use_edges, use_chirality, use_partial_charge, rdkit_available, pc,
              n_computed, n_encoded, entry_annotated, computes, results>>

pagtn_vars == <<ctor_max_length, pagtn, p_op, p_args, p_out>>

(***************************************************************************)
(* Bounds of the model.                                                    *)
(***************************************************************************)
MaxAtoms == 3
MaxBonds == 2
MaxCalls == 2
MaxChain == 7
MaxLengthArg == 3

(***************************************************************************)
(* Generic helpers.                                                        *)
(***************************************************************************)
Zeros(n) == [k \in 1..n |-> 0]

B2I(b) == IF b THEN 1 ELSE 0

RECURSIVE Flatten(_)
Flatten(rows) == IF rows = <<>> THEN <<>> ELSE Head(rows) \o Flatten(Tail(rows))

RECURSIVE Sum(_)
Sum(v) == IF v = <<>> THEN 0 ELSE Head(v) + Sum(Tail(v))

Min(a, b) == IF a < b THEN a ELSE b

\* one-hot of x over the list allowable; with encode_unknown a trailing
\* slot is set when x is not in the list
OneHot(x, allowable, encode_unknown) ==
  [k \in 1..Len(allowable) |-> B2I(allowable[k] = x)]
  \o (IF encode_unknown
      THEN <<B2I(\A k \in 1..Len(allowable) : allowable[k] # x)>>
      ELSE <<>>)

(***************************************************************************)
(* The molecule.                                                           *)
(***************************************************************************)
NoCharge == [has |-> FALSE, nan |-> FALSE, val |-> 0]

Carbon == [symbol |-> "C", formal_charge |-> 0, hybridization |-> "SP3",
           hbond |-> "None", aromatic |-> FALSE, degree |-> 4, num_hs |-> 3,
           chirality |-> "None",
           gasteiger |-> [has |-> TRUE, nan |-> FALSE, val |-> -65]]

Nitrogen == [symbol |-> "N", formal_charge |-> 1, hybridization |-> "SP2",
             hbond |-> "Donor", aromatic |-> TRUE, degree |-> 3, num_hs |-> 1,
             chirality |-> "R",
             gasteiger |-> [has |-> TRUE, nan |-> TRUE, val |-> 0]]

AtomKinds == {Carbon, Nitrogen}

SingleBond == [btype |-> "SINGLE", conjugated |-> FALSE, stereo |-> "STEREONONE"]

AromaticBond == [btype |-> "AROMATIC", conjugated |-> TRUE, stereo |-> "STEREOZ"]

BondKinds == {SingleBond, AromaticBond}

NumAtoms(m) == Len(m.atoms)

AtomIdxs(m) == 0..(NumAtoms(m) - 1)

\* mol.GetBondBetweenAtoms(u, v): the bond joining u and v, or None
GetBondBetweenAtoms(m, u, v) ==
  LET hits == {k \in 1..Len(m.bonds) :
                 {m.bonds[k].begin, m.bonds[k].end} = {u, v}}
  IN  IF hits = {} \/ u = v THEN <<>> ELSE <<m.bonds[CHOOSE k \in hits : TRUE]>>

Neighbors(m, u) == {v \in AtomIdxs(m) : GetBondBetweenAtoms(m, u, v) # <<>>}

\* the neighbours of every atom
Adjacency(m) == [u \in AtomIdxs(m) |-> Neighbors(m, u)]

\* atoms of S reachable from the atoms of seen through bonds inside S
RECURSIVE Component(_, _, _)
Component(adj, S, seen) ==
  LET more == {v \in S \ seen : \E u \in seen : v \in adj[u]}
  IN  IF more = {} THEN seen ELSE Component(adj, S, seen \cup more)

\* the rings of a bond graph: atom sets whose bonds form one simple cycle
RingsIn(adj) ==
  {S \in SUBSET DOMAIN adj :
     /\ Cardinality(S) >= 3
     /\ \A u \in S : Cardinality(adj[u] \cap S) = 2
     /\ Component(adj, S, {CHOOSE u \in S : TRUE}) = S}

\* mol.GetRingInfo(): the rings RDKit keeps with the molecule
Rings(m) == m.rings

RingBonds(m, S) ==
  {k \in 1..Len(m.bonds) : m.bonds[k].begin \in S /\ m.bonds[k].end \in S}

RingIsAromatic(m, S) == \A k \in RingBonds(m, S) : m.bonds[k].kind.btype = "AROMATIC"

\* atoms reachable from the atoms of seen without crossing the bond u-v
RECURSIVE ReachAvoiding(_, _, _, _)
ReachAvoiding(adj, u, v, seen) ==
  LET more == {y \in (DOMAIN adj) \ seen :
                 \E x \in seen : y \in adj[x] /\ {x, y} # {u, v}}
  IN  IF more = {} THEN seen ELSE ReachAvoiding(adj, u, v, seen \cup more)

\* the neighbours of every atom under a bond list
AdjacencyOver(n, pairs) ==
  [x \in 0..(n - 1) |-> {y \in 0..(n - 1) : {x, y} \in pairs}]

AdjacencyOf(atoms, bonds) ==
  AdjacencyOver(Len(atoms), {{bonds[k].begin, bonds[k].end} : k \in 1..Len(bonds)})

\* whether a bond between u and v lies on a cycle of the bond graph
OnCycle(adj, u, v) == v \in ReachAvoiding(adj, u, v, {u})

\* bond.IsInRing(): the ring membership RDKit keeps with the bond
BondIsInRing(m, bond) == bond.in_ring

\* atom.GetProp('_GasteigerCharge') succeeds
HasGasteigerCharge(m, i) == i \in AtomIdxs(m) /\ m.charges[i + 1].has

\* AllChem.ComputeGasteigerCharges(mol): annotates every atom in place
ComputeGasteigerCharges(m) ==
  [m EXCEPT !.charges = [k \in 1..NumAtoms(m) |-> m.atoms[k].gasteiger]]

(***************************************************************************)
(* Categorical encoders of deepchem.utils.molecule_feature_utils.          *)
(***************************************************************************)
ATOM_TYPES == <<"C", "N", "O", "F", "P", "S", "Cl", "Br", "I">>

HYBRIDIZATIONS == <<"SP", "SP2", "SP3">>

DEGREES == <<0, 1, 2, 3, 4, 5>>

NUM_HS == <<0, 1, 2, 3, 4>>

CHIRALITIES == <<"R", "S">>

BOND_TYPES == <<"SINGLE", "DOUBLE", "TRIPLE", "AROMATIC">>

BOND_STEREOS == <<"STEREONONE", "STEREOANY", "STEREOZ", "STEREOE">>

\* construct_hydrogen_bonding_info(mol): the (atom index, role) pairs of the molecule
construct_hydrogen_bonding_info(m) ==
  {<<i, m.atoms[i + 1].hbond>> : i \in {k \in AtomIdxs(m) : m.atoms[k + 1].hbond # "None"}}

get_atom_hydrogen_bonding_one_hot(i, h_bond_infos) ==
  <<B2I(<<i, "Donor">> \in h_bond_infos), B2I(<<i, "Acceptor">> \in h_bond_infos)>>

\* get_atom_partial_charge(atom): the _GasteigerCharge property, NaN mapped to 0
get_atom_partial_charge(charge) == IF charge.nan THEN <<0>> ELSE <<charge.val>>

(***************************************************************************)
(* _construct_atom_feature: the feature vector of the atom with index i,   *)
(* or the KeyError of reading a _GasteigerCharge property that is not set. *)
(***************************************************************************)
_construct_atom_feature(m, i, h_bond_infos, uc, upc) ==
  LET atom == m.atoms[i + 1]
      atom_feat == OneHot(atom.symbol, ATOM_TYPES, TRUE)
                   \o <<atom.formal_charge>>
                   \o OneHot(atom.hybridization, HYBRIDIZATIONS, FALSE)
                   \o get_atom_hydrogen_bonding_one_hot(i, h_bond_infos)
                   \o <<B2I(atom.aromatic)>>
                   \o OneHot(atom.degree, DEGREES, TRUE)
                   \o OneHot(atom.num_hs, NUM_HS, TRUE)
      with_chirality == IF uc
                        THEN atom_feat \o OneHot(atom.chirality, CHIRALITIES, FALSE)
                        ELSE atom_feat
  IN  IF upc /\ ~HasGasteigerCharge(m, i)
      THEN [exc |-> "KeyError", vec |-> <<>>]
      ELSE [exc |-> "",
            vec |-> IF upc
                    THEN with_chirality \o get_atom_partial_charge(m.charges[i + 1])
                    ELSE with_chirality]

(***************************************************************************)
(* _construct_bond_feature: the feature vector of a bond.                  *)
(***************************************************************************)
_construct_bond_feature(m, bond) ==
  OneHot(bond.kind.btype, BOND_TYPES, FALSE)
  \o <<B2I(BondIsInRing(m, bond))>>
  \o <<B2I(bond.kind.conjugated)>>
  \o OneHot(bond.kind.stereo, BOND_STEREOS, TRUE)

(***************************************************************************)
(* MolGraphConvFeaturizer._featurize, after the partial-charge step.       *)
(***************************************************************************)
\* the list comprehension over mol.GetAtoms(): one encoder call per atom
AtomFeatureCalls(m, uc, upc) ==
  LET h_bond_infos == construct_hydrogen_bonding_info(m)
  IN  [k \in 1..NumAtoms(m) |-> _construct_atom_feature(m, k - 1, h_bond_infos, uc, upc)]

\* the loop "for bond in mol.GetBonds()" that fills src and dest
RECURSIVE EdgeLists(_, _, _)
EdgeLists(bonds, src, dest) ==
  IF bonds = <<>>
  THEN <<src, dest>>
  ELSE LET start == Head(bonds).begin
           end == Head(bonds).end
       IN  EdgeLists(Tail(bonds), src \o <<start, end>>, dest \o <<end, start>>)

\* a mutation of EdgeIndex: only the forward edge of each bond is listed
EdgeIndexForwardOnly(bonds) ==
  <<[k \in 1..Len(bonds) |-> bonds[k].begin], [k \in 1..Len(bonds) |-> bonds[k].end]>>

EdgeIndex(bonds) == EdgeLists(bonds, <<>>, <<>>)

\* the loop that fills features when use_edges is set
RECURSIVE BondFeatureLoop(_, _, _)
BondFeatureLoop(m, bonds, features) ==
  IF bonds = <<>>
  THEN features
  ELSE LET f == _construct_bond_feature(m, Head(bonds))
       IN  BondFeatureLoop(m, Tail(bonds), features \o <<f, f>>)

\* a mutation of BondFeatures: each bond's vector is appended once
BondFeaturesOncePerBond(m, ue) ==
  IF ue THEN <<[k \in 1..Len(m.bonds) |-> _construct_bond_feature(m, m.bonds[k])]>> ELSE <<>>

\* bond_features: None, or the matrix of the duplicated bond vectors
BondFeatures(m, ue) == IF ue THEN <<BondFeatureLoop(m, m.bonds, <<>>)>> ELSE <<>>

Raised(name) ==
  [exc |-> name, node_features |-> <<>>, edge_index |-> <<<<>>, <<>>>>, edge_features |-> <<>>]

\* lines 189-219: the GraphData returned, or the exception of an atom encoder
BuildGraph(m, ue, uc, upc) ==
  LET calls == AtomFeatureCalls(m, uc, upc)
      failed == {k \in 1..Len(calls) : calls[k].exc # ""}
  IN  IF failed # {}
      THEN Raised(calls[CHOOSE k \in failed : \A j \in failed : k <= j].exc)
      ELSE [exc |-> "",
            node_features |-> [k \in 1..Len(calls) |-> calls[k].vec],
            edge_index |-> EdgeIndex(m.bonds),
            edge_features |-> BondFeatures(m, ue)]

(***************************************************************************)
(* MolGraphConvFeaturizer._featurize as two steps of one call: the         *)
(* partial-charge step (lines 178-187) and the construction of the graph   *)
(* (lines 189-219).  Nothing else runs between the two.                    *)
(***************************************************************************)
\* a mutation of MGC_PartialCharges: the charges are computed without looking
\* for an existing annotation
MGC_PartialChargesAlwaysCompute ==
  /\ pc = "idle"
  /\ Len(results) < MaxCalls
  /\ entry_annotated' = HasGasteigerCharge(mol, 0)
  /\ n_encoded' = 0
  /\ IF ~use_partial_charge
     THEN /\ n_computed' = 0
          /\ pc' = "build"
          /\ UNCHANGED <<mol, results, computes>>
     ELSE IF rdkit_available
          THEN /\ mol' = ComputeGasteigerCharges(mol)
               /\ n_computed' = 1
               /\ pc' = "build"
               /\ UNCHANGED <<results, computes>>
          ELSE /\ n_computed' = 0
               /\ results' = Append(results, Raised("ImportError"))
               /\ computes' = Append(computes, 0)
               /\ pc' = "idle"
               /\ UNCHANGED mol
  /\ UNCHANGED <<use_edges, use_chirality, use_partial_charge, rdkit_available>>
  /\ UNCHANGED pagtn_vars

MGC_PartialCharges ==
  /\ pc = "idle"
  /\ Len(results) < MaxCalls
  /\ entry_annotated' = HasGasteigerCharge(mol, 0)
  /\ n_encoded' = 0
  /\ IF ~use_partial_charge \/ HasGasteigerCharge(mol, 0)
     THEN \* no charges wanted, or GetProp on atom 0 succeeded
          /\ n_computed' = 0
          /\ pc' = "build"
          /\ UNCHANGED <<mol, results, computes>>
     ELSE IF rdkit_available
          THEN /\ mol' = ComputeGasteigerCharges(mol)
               /\ n_computed' = 1
               /\ pc' = "build"
               /\ UNCHANGED <<results, computes>>
          ELSE \* ModuleNotFoundError becomes ImportError; the call ends
               /\ n_computed' = 0
               /\ results' = Append(results, Raised("ImportError"))
               /\ computes' = Append(computes, 0)
               /\ pc' = "idle"
               /\ UNCHANGED mol
  /\ UNCHANGED <<use_edges, use_chirality, use_partial_charge, rdkit_available>>
  /\ UNCHANGED pagtn_vars

\* a mutation of MGC_Build: src and dest outlive the call, so a later call
\* appends to the lists of the one before
MGC_BuildKeepsEdgeLists ==
  /\ pc = "build"
  /\ LET g == BuildGraph(mol, use_edges, use_chirality, use_partial_charge)
         old == IF results = <<>>
                THEN <<<<>>, <<>>>>
                ELSE results[Len(results)].edge_index
     IN  /\ results' = Append(results,
                              IF g.exc = ""
                              THEN [g EXCEPT !.edge_index = EdgeLists(mol.bonds, old[1], old[2])]
                              ELSE g)
         /\ n_encoded' = IF g.exc = "" THEN NumAtoms(mol) ELSE n_encoded
  /\ computes' = Append(computes, n_computed)
  /\ pc' = "idle"
  /\ UNCHANGED <<mol, use_edges, use_chirality, use_partial_charge, rdkit_available,
                 n_computed, entry_annotated>>
  /\ UNCHANGED pagtn_vars

MGC_Build ==
  /\ pc = "build"
  /\ LET g == BuildGraph(mol, use_edges, use_chirality, use_partial_charge)
     IN  /\ results' = Append(results, g)
         /\ n_encoded' = IF g.exc = "" THEN NumAtoms(mol) ELSE n_encoded
  /\ computes' = Append(computes, n_computed)
  /\ pc' = "idle"
  /\ UNCHANGED <<mol, use_edges, use_chirality, use_partial_charge, rdkit_available,
                 n_computed, entry_annotated>>
  /\ UNCHANGED pagtn_vars

(***************************************************************************)
(* Input molecules of the sparse featurizer.                               *)
(***************************************************************************)
MolOver(adj, atoms, bonds, annotated) ==
  [atoms |-> atoms,
   bonds |-> [k \in 1..Len(bonds) |->
                [begin |-> bonds[k].begin, end |-> bonds[k].end, kind |-> bonds[k].kind,
                 in_ring |-> OnCycle(adj, bonds[k].begin, bonds[k].end)]],
   rings |-> RingsIn(adj),
   charges |-> [k \in 1..Len(atoms) |-> IF annotated THEN atoms[k].gasteiger ELSE NoCharge]]

BondChoices(n) ==
  {[begin |-> e[1], end |-> e[2], kind |-> kd] :
     e \in {p \in (0..(n - 1)) \X (0..(n - 1)) : p[1] # p[2]}, kd \in BondKinds}

\* the molecule with the given atoms and bonds, with or without annotated charges
Mol(atoms, bonds, annotated) == MolOver(AdjacencyOf(atoms, bonds), atoms, bonds, annotated)

\* bond lists of length b over n atoms, at most one bond per atom pair
RECURSIVE BondSeqs(_, _)
BondSeqs(n, b) ==
  IF b = 0
  THEN {<<>>}
  ELSE {Append(s, bd) : <<s, bd>> \in
          {<<s, bd>> \in BondSeqs(n, b - 1) \X BondChoices(n) :
             \A k \in 1..Len(s) : {s[k].begin, s[k].end} # {bd.begin, bd.end}}}

\* the single-bonded chain 0-1-...-(n-1), cut after MaxBonds bonds
ChainBonds(n) ==
  [k \in 1..Min(IF n > 0 THEN n - 1 ELSE 0, MaxBonds) |->
     [begin |-> k - 1, end |-> k, kind |-> SingleBond]]

\* molecules that vary in their atoms, along a fixed chain of bonds
AtomVaried(annotated) ==
  UNION {{Mol(atoms, ChainBonds(n), annotated) : atoms \in [1..n -> AtomKinds]} :
           n \in 0..MaxAtoms}

\* molecules that vary in their bonds, over carbon atoms
BondVaried(max_atoms, max_bonds) ==
  UNION {{Mol([k \in 1..n |-> Carbon], bonds, FALSE) : bonds \in BondSeqs(n, b)} :
           <<n, b>> \in (0..max_atoms) \X (0..max_bonds)}

PagtnIdle ==
  /\ ctor_max_length = 0
  /\ pagtn = [max_length |-> 0]
  /\ p_op = "none"
  /\ p_args = [path_atoms |-> <<>>, ring_info |-> <<>>]
  /\ p_out = [exc |-> "", warnings |-> 0, vec |-> <<>>, node_features |-> <<>>,
              edge_index |-> <<<<>>, <<>>>>, feats |-> <<>>]

InitMGC ==
  /\ \/ /\ rdkit_available \in BOOLEAN
        /\ \E annotated \in BOOLEAN : mol \in AtomVaried(annotated)
        /\ use_chirality \in BOOLEAN
        /\ use_partial_charge \in BOOLEAN
     \/ /\ rdkit_available = TRUE
        /\ mol \in BondVaried(MaxAtoms, MaxBonds)
        /\ use_chirality = FALSE
        /\ use_partial_charge = FALSE
  /\ use_edges \in BOOLEAN
  /\ pc = "idle"
  /\ n_computed = 0
  /\ n_encoded = 0
  /\ entry_annotated = FALSE
  /\ computes = <<>>
  /\ results = <<>>
  /\ PagtnIdle

NextMGC == MGC_PartialCharges \/ MGC_Build

SpecMGC == InitMGC /\ [][NextMGC]_vars

(***************************************************************************)
(* PAGTNFeaturizer.                                                        *)
(***************************************************************************)
DefaultMaxLength == 5

AssignedMaxLength == 5

RING_TYPES == <<<<5, FALSE>>, <<5, TRUE>>, <<6, FALSE>>, <<6, TRUE>>>>

\* __init__(max_length): the instance after construction
PAGTN_init(max_length) == [max_length |-> AssignedMaxLength]

\* self.ordered_pair
ordered_pair(a, b) == IF a < b THEN <<a, b>> ELSE <<b, a>>

\* PAGTNAtomFeaturizer(atom): its body reads self, which is no parameter of
\* it and no name of the module
PAGTNAtomFeaturizer(atom) == [exc |-> "NameError", vec |-> <<>>]

\* self.bond_featurizer = ConcatFeaturizer([bond_type_one_hot,
\* bond_is_conjugated, bond_is_in_ring]), applied to a bond that is not None
bond_featurizer(m, bond) ==
  OneHot(bond.kind.btype, BOND_TYPES, FALSE)
  \o <<B2I(bond.kind.conjugated)>>
  \o <<B2I(BondIsInRing(m, bond))>>

\* lines 284-290: the bonds (or None) between consecutive atoms of the path
PathBonds(m, path_atoms) ==
  [k \in 1..(Len(path_atoms) - 1) |->
     GetBondBetweenAtoms(m, path_atoms[k], path_atoms[k + 1])]

\* lines 298-299: the slot of the position block that is set
PositionIndex(self, path_atoms) ==
  IF Len(path_atoms) + 1 > self.max_length
  THEN self.max_length + 1
  ELSE Len(path_atoms)

\* lines 303-312: the ring block
RingFeature(ring_info) ==
  IF ring_info # <<>>
  THEN <<1>> \o [k \in 1..Len(RING_TYPES) |->
                   B2I(\E r \in 1..Len(ring_info) : ring_info[r] = RING_TYPES[k])]
  ELSE <<0>> \o OneHot(ring_info, RING_TYPES, FALSE)

(***************************************************************************)
(* bond_features(mol, path_atoms, ring_info): the pair vector, with the    *)
(* number of warnings emitted; the bond featurizer raises on None.         *)
(***************************************************************************)
bond_features(self, m, path_atoms, ring_info) ==
  LET path_bonds == PathBonds(m, path_atoms)
      warnings == Cardinality({k \in 1..Len(path_bonds) : path_bonds[k] = <<>>})
      none_used == \E idx \in 1..self.max_length :
                      idx <= Len(path_bonds) /\ path_bonds[idx] = <<>>
      slots == [idx \in 1..self.max_length |->
                  IF idx <= Len(path_bonds)
                  THEN bond_featurizer(m, path_bonds[idx][1])
                  ELSE <<0, 0, 0, 0, 0, 0>>]
      position_feature == [k \in 1..(self.max_length + 2) |->
                             B2I(k = PositionIndex(self, path_atoms) + 1)]
  IN  IF none_used
      THEN [exc |-> "AttributeError", warnings |-> warnings, vec |-> <<>>]
      ELSE [exc |-> "", warnings |-> warnings,
            vec |-> Flatten(slots) \o position_feature \o RingFeature(ring_info)]

(***************************************************************************)
(* utils.compute_all_pairs_shortest_path and                               *)
(* utils.compute_pairwise_ring_info.                                       *)
(***************************************************************************)
\* breadth-first search from the paths of the current depth; <<>> when j is
\* not reachable
RECURSIVE ShortestPathFrom(_, _, _, _)
ShortestPathFrom(adj, paths, seen, j) ==
  LET hit == {p \in paths : p[Len(p)] = j}
      fresh == {v \in (DOMAIN adj) \ seen : \E p \in paths : v \in adj[p[Len(p)]]}
      next == {Append(CHOOSE p \in paths : v \in adj[p[Len(p)]], v) : v \in fresh}
  IN  IF hit # {} THEN CHOOSE p \in hit : TRUE
      ELSE IF fresh = {} THEN <<>>
      ELSE ShortestPathFrom(adj, next, seen \cup fresh, j)

\* the map from the pairs of distinct connected atoms to a shortest path
compute_all_pairs_shortest_path(m) ==
  LET adj == Adjacency(m)
      sp == [e \in AtomIdxs(m) \X AtomIdxs(m) |->
               IF e[1] = e[2] THEN <<>> ELSE ShortestPathFrom(adj, {<<e[1]>>}, {e[1]}, e[2])]
  IN  [e \in {x \in AtomIdxs(m) \X AtomIdxs(m) : sp[x] # <<>>} |-> sp[e]]

\* the map from the ordered pairs of atoms that share a ring to the
\* (size, aromatic) descriptions of those rings
compute_pairwise_ring_info(m) ==
  LET rings == Rings(m)
      shared(e) == {S \in rings : e[1] \in S /\ e[2] \in S}
      keys == {e \in AtomIdxs(m) \X AtomIdxs(m) : e[1] < e[2] /\ shared(e) # {}}
      \* the rings of a pair, listed by increasing size
      RECURSIVE listed(_)
      listed(T) == IF T = {} THEN <<>>
                   ELSE LET S == CHOOSE S \in T : \A U \in T : Cardinality(S) <= Cardinality(U)
                        IN  <<<<Cardinality(S), RingIsAromatic(m, S)>>>> \o listed(T \ {S})
  IN  [e \in keys |-> listed(shared(e))]

(***************************************************************************)
(* PAGTNBondFeaturizer(mol): the double loop over the atom pairs.          *)
(***************************************************************************)
\* a mutation of NoPathVector: the position block's two extra slots forgotten
NoPathVectorShort(self) == Zeros(7 * self.max_length + 5)

\* line 343: the vector of a pair without a path
NoPathVector(self) == Zeros(7 * self.max_length + 7)

\* a mutation of PairColumn: source and destination exchanged
PairColumnSwapped(i, j) == <<j, i>>

\* lines 339-340: the edge_index column of the pair (i, j)
PairColumn(i, j) == <<i, j>>

\* lines 342-346: the outcome for one pair
PairFeature(self, m, paths_dict, rings_dict, i, j) ==
  IF <<i, j>> \notin DOMAIN paths_dict
  THEN [exc |-> "", warnings |-> 0, vec |-> NoPathVector(self)]
  ELSE LET key == ordered_pair(i, j)
           ring_info == IF key \in DOMAIN rings_dict THEN rings_dict[key] ELSE <<>>
       IN  bond_features(self, m, paths_dict[<<i, j>>], ring_info)

\* the outcome record of a PAGTNFeaturizer call, before anything is filled in
NoOutcome ==
  [exc |-> "", warnings |-> 0, vec |-> <<>>, node_features |-> <<>>,
   edge_index |-> <<<<>>, <<>>>>, feats |-> <<>>]

\* the loops "for i in range(n_atoms): for j in range(n_atoms)"; acc holds
\* src, dest, feats and the warnings so far
RECURSIVE PairLoop(_, _, _, _, _, _, _)
PairLoop(self, m, paths_dict, rings_dict, i, j, acc) ==
  IF i >= NumAtoms(m) THEN acc
  ELSE IF j >= NumAtoms(m) THEN PairLoop(self, m, paths_dict, rings_dict, i + 1, 0, acc)
  ELSE LET col == PairColumn(i, j)
           f == PairFeature(self, m, paths_dict, rings_dict, i, j)
       IN  IF f.exc # ""
           THEN [NoOutcome EXCEPT !.exc = f.exc, !.warnings = acc.warnings + f.warnings]
           ELSE PairLoop(self, m, paths_dict, rings_dict, i, j + 1,
                         [acc EXCEPT !.warnings = acc.warnings + f.warnings,
                                     !.edge_index = <<Append(acc.edge_index[1], col[1]),
                                                      Append(acc.edge_index[2], col[2])>>,
                                     !.feats = Append(acc.feats, f.vec)])

PAGTNBondFeaturizer(self, m) ==
  PairLoop(self, m, compute_all_pairs_shortest_path(m), compute_pairwise_ring_info(m),
           0, 0, NoOutcome)

\* _featurize(mol): self.PAGTNAtomFeaturizer(mol) passes two arguments to a
\* function of one parameter
PAGTN_featurize(self, m) == [NoOutcome EXCEPT !.exc = "TypeError"]

(***************************************************************************)
(* Calls of the PAGTNFeaturizer methods; one call per run.                 *)
(***************************************************************************)
\* the ring_info lists handed to bond_features directly
RingInfos == {<<>>, <<<<5, FALSE>>>>, <<<<6, TRUE>>, <<3, FALSE>>>>}

\* the paths handed to bond_features directly: the atoms 0, 1, ..., k-1
IndexPaths(m) == {[k \in 1..n |-> k - 1] : n \in 0..NumAtoms(m)}

PAGTN_CallBondFeatures ==
  /\ p_op = "none"
  /\ \E path_atoms \in IndexPaths(mol), ring_info \in RingInfos :
       LET f == bond_features(pagtn, mol, path_atoms, ring_info)
       IN  /\ p_args' = [path_atoms |-> path_atoms, ring_info |-> ring_info]
           /\ p_out' = [NoOutcome EXCEPT !.exc = f.exc, !.warnings = f.warnings,
                                         !.vec = f.vec]
  /\ p_op' = "bond_features"
  /\ UNCHANGED <<mol, ctor_max_length, pagtn>>
  /\ UNCHANGED mgc_vars

PAGTN_CallBondFeaturizer ==
  /\ p_op = "none"
  /\ p_op' = "PAGTNBondFeaturizer"
  /\ p_out' = PAGTNBondFeaturizer(pagtn, mol)
  /\ UNCHANGED <<mol, ctor_max_length, pagtn, p_args>>
  /\ UNCHANGED mgc_vars

PAGTN_CallFeaturize ==
  /\ p_op = "none"
  /\ p_op' = "_featurize"
  /\ p_out' = PAGTN_featurize(pagtn, mol)
  /\ UNCHANGED <<mol, ctor_max_length, pagtn, p_args>>
  /\ UNCHANGED mgc_vars

(***************************************************************************)
(* Input molecules of the path-aware featurizer: carbon atoms 0..n-1 with  *)
(* any subset of the bonds of the cycle 0-1-...-(n-1)-0.                   *)
(***************************************************************************)
CycleEdges(n) ==
  IF n < 2 THEN <<>>
  ELSE IF n = 2 THEN <<<<0, 1>>>>
  ELSE [k \in 1..n |-> <<k - 1, k % n>>]

\* the kind of the k-th cycle bond: all single, all aromatic, or alternating
PatternKind(pattern, k) ==
  CASE pattern = "single" -> SingleBond
    [] pattern = "aromatic" -> AromaticBond
    [] OTHER -> IF k % 2 = 1 THEN SingleBond ELSE AromaticBond

RECURSIVE SelectBonds(_, _, _, _)
SelectBonds(edges, present, pattern, k) ==
  IF k > Len(edges) THEN <<>>
  ELSE (IF k \in present
        THEN <<[begin |-> edges[k][1], end |-> edges[k][2],
                kind |-> PatternKind(pattern, k)]>>
        ELSE <<>>)
       \o SelectBonds(edges, present, pattern, k + 1)

CycleFragments(max_atoms) ==
  UNION {{Mol([k \in 1..n |-> Carbon],
              SelectBonds(CycleEdges(n), present, pattern, 1), FALSE) :
            present \in SUBSET (1..Len(CycleEdges(n))),
            pattern \in {"single", "aromatic", "alternating"}} :
           n \in 0..max_atoms}

InitPAGTN ==
  /\ mol \in CycleFragments(MaxChain)
  /\ ctor_max_length \in {MaxLengthArg, DefaultMaxLength}
  /\ pagtn = PAGTN_init(ctor_max_length)
  /\ p_op = "none"
  /\ p_args = [path_atoms |-> <<>>, ring_info |-> <<>>]
  /\ p_out = NoOutcome
  /\ use_edges = FALSE
  /\ use_chirality = FALSE
  /\ use_partial_charge = FALSE
  /\ rdkit_available = TRUE
  /\ pc = "idle"
  /\ n_computed = 0
  /\ n_encoded = 0
  /\ entry_annotated = FALSE
  /\ computes = <<>>
  /\ results = <<>>

NextPAGTN == PAGTN_CallBondFeatures \/ PAGTN_CallBondFeaturizer \/ PAGTN_CallFeaturize

SpecPAGTN == InitPAGTN /\ [][NextPAGTN]_vars

(***************************************************************************)
(* Properties of MolGraphConvFeaturizer._featurize (SpecMGC).              *)
(***************************************************************************)
Returned == {c \in 1..Len(results) : results[c].exc = ""}

\* C1: for a molecule with B bonds in bond iteration order, every returned
\* edge_index has exactly 2B columns; for bond k = (u, v), column 2k is
\* (src = u, dest = v) and column 2k+1 is (src = v, dest = u), whatever
\* use_edges, use_chirality and use_partial_charge are.
C1_EdgeIndexPairsPerBond ==
  \A c \in Returned :
    /\ Len(results[c].edge_index[1]) = 2 * Len(mol.bonds)
    /\ Len(results[c].edge_index[2]) = 2 * Len(mol.bonds)
    /\ \A k \in 0..(Len(mol.bonds) - 1) :
         /\ results[c].edge_index[1][2 * k + 1] = mol.bonds[k + 1].begin
         /\ results[c].edge_index[2][2 * k + 1] = mol.bonds[k + 1].end
         /\ results[c].edge_index[1][2 * k + 2] = mol.bonds[k + 1].end
         /\ results[c].edge_index[2][2 * k + 2] = mol.bonds[k + 1].begin

\* a graph returned for a molecule of two bonds, the first listed from its
\* higher to its lower atom, by a featurizer without edge features
C1_Witness ==
  /\ Returned # {}
  /\ ~use_edges
  /\ Len(mol.bonds) = 2
  /\ mol.bonds[1].begin > mol.bonds[1].end
  /\ mol.bonds[2].begin < mol.bonds[2].end

\* C2: without use_edges the returned edge_features is None; with use_edges it
\* has 2B rows, rows 2k and 2k+1 are both the encoding of bond k, and row i
\* describes the bond whose endpoints are column i of edge_index.
C2_EdgeFeaturesFollowEdgeIndex ==
  \A c \in Returned :
    IF ~use_edges
    THEN results[c].edge_features = <<>>
    ELSE /\ Len(results[c].edge_features) = 1
         /\ Len(results[c].edge_features[1]) = 2 * Len(mol.bonds)
         /\ \A k \in 0..(Len(mol.bonds) - 1) :
              /\ results[c].edge_features[1][2 * k + 1]
                   = _construct_bond_feature(mol, mol.bonds[k + 1])
              /\ results[c].edge_features[1][2 * k + 2]
                   = _construct_bond_feature(mol, mol.bonds[k + 1])
         /\ \A i \in 1..Len(results[c].edge_features[1]) :
              /\ i <= Len(results[c].edge_index[1])
              /\ LET bond == GetBondBetweenAtoms(mol, results[c].edge_index[1][i],
                                                 results[c].edge_index[2][i])
                 IN  /\ bond # <<>>
                     /\ results[c].edge_features[1][i] = _construct_bond_feature(mol, bond[1])

\* edge features returned for a molecule whose two bonds encode differently
C2_Witness ==
  /\ Returned # {}
  /\ use_edges
  /\ Len(mol.bonds) = 2
  /\ mol.bonds[1].kind # mol.bonds[2].kind
  /\ results[1].edge_features # <<>>

\* the number of charge computations the current call owes
ComputationsDue == IF use_partial_charge /\ ~entry_annotated THEN 1 ELSE 0

\* C8: with use_partial_charge on a molecule without annotated charges the
\* computation runs exactly once and is complete before the first atom is
\* encoded; with annotated charges, or without use_partial_charge, it never
\* runs; with its dependency missing the call ends with ImportError and
\* returns no GraphData.
C8_ChargesComputedOnceBeforeAtoms ==
  /\ pc = "build" => /\ n_encoded = 0
                     /\ n_computed = ComputationsDue
                     /\ (use_partial_charge => HasGasteigerCharge(mol, 0) \/ NumAtoms(mol) = 0)
  /\ pc = "idle" /\ results # <<>> =>
       IF use_partial_charge /\ ~entry_annotated /\ ~rdkit_available
       THEN /\ results[Len(results)].exc = "ImportError"
            /\ n_computed = 0
            /\ n_encoded = 0
       ELSE /\ results[Len(results)].exc # "ImportError"
            /\ n_computed = ComputationsDue
            /\ computes[Len(computes)] = ComputationsDue

\* the charges were computed, and the atoms are about to be encoded
C8_Witness ==
  /\ pc = "build"
  /\ use_partial_charge
  /\ ~entry_annotated
  /\ n_computed = 1
  /\ n_encoded = 0
  /\ NumAtoms(mol) > 1

\* C9: two calls in a row on the same molecule object with the same
\* configuration return identical node_features, edge_index and
\* edge_features, also when the first call annotated the partial charges and
\* the second found them present.
C9_FeaturizeIdempotent ==
  \A c \in 1..Len(results), d \in 1..Len(results) : results[c] = results[d]

\* the first call computed the charges, the second found them; both returned
C9_Witness ==
  /\ Len(results) >= 2
  /\ computes[1] = 1
  /\ computes[2] = 0
  /\ results[1].exc = ""
  /\ results[2].exc = ""
  /\ Len(mol.bonds) > 0
  /\ NumAtoms(mol) > 1

(***************************************************************************)
(* Properties of PAGTNFeaturizer (SpecPAGTN).                              *)
(***************************************************************************)
\* the pair vectors of out are those of the pairs (i, j) in row-major order
RowMajor(out, self, m, paths_dict, rings_dict) ==
  LET n == NumAtoms(m)
  IN  /\ Len(out.edge_index[1]) = n * n
      /\ Len(out.edge_index[2]) = n * n
      /\ Len(out.feats) = n * n
      /\ \A i \in 0..(n - 1), j \in 0..(n - 1) :
           /\ out.edge_index[1][i * n + j + 1] = i
           /\ out.edge_index[2][i * n + j + 1] = j
           /\ out.feats[i * n + j + 1]
                = PairFeature(self, m, paths_dict, rings_dict, i, j).vec

Widths(out, l, n, paths_dict) ==
  \A i \in 0..(n - 1), j \in 0..(n - 1) :
    /\ Len(out.feats[i * n + j + 1]) = 7 * l + 7
    /\ <<i, j>> \notin DOMAIN paths_dict => out.feats[i * n + j + 1] = Zeros(7 * l + 7)

C3_NodeRowPerAtom ==
  /\ \A c \in Returned :
       /\ Len(results[c].node_features) = NumAtoms(mol)
       /\ \A i \in AtomIdxs(mol) :
            results[c].node_features[i + 1]
              = _construct_atom_feature(mol, i, construct_hydrogen_bonding_info(mol),
                                        use_chirality, use_partial_charge).vec
  /\ p_op = "_featurize" =>
       /\ p_out.exc = ""
       /\ Len(p_out.node_features) = NumAtoms(mol)
       /\ \A i \in AtomIdxs(mol) :
            /\ PAGTNAtomFeaturizer(mol.atoms[i + 1]).exc = ""
            /\ p_out.node_features[i + 1] = PAGTNAtomFeaturizer(mol.atoms[i + 1]).vec

\* the position block of a pair vector
PositionBlock(vec, l) == SubSeq(vec, 6 * l + 1, 6 * l + l + 2)

\* C6 (as claimed): for every pair with a shortest path the position block
\* has exactly one slot set, at index min(path length, L+1), the path length
\* being the number of bonds on the path.
C6_PositionIsBondCount ==
  p_op = "PAGTNBondFeaturizer" /\ p_out.exc = "" =>
    \A e \in DOMAIN compute_all_pairs_shortest_path(mol) :
      LET n_bonds == Len(compute_all_pairs_shortest_path(mol)[e]) - 1
          block == PositionBlock(p_out.feats[e[1] * NumAtoms(mol) + e[2] + 1],
                                 pagtn.max_length)
      IN  /\ Sum(block) = 1
          /\ block[Min(n_bonds, pagtn.max_length + 1) + 1] = 1

\* the s-th bond block of a pair vector
BondBlock(vec, s) == SubSeq(vec, 6 * (s - 1) + 1, 6 * s)

\* C7 (as claimed): a featurizer constructed with max_length = L truncates at
\* L: a pair vector has exactly L bond slots, the first min(p, L) of them the
\* encodings of the first bonds of the path in path order, the others zero
\* blocks, and the vector of a pair without a path has width 7L+7.
C7_ConstructorMaxLengthUsed ==
  /\ p_op = "bond_features" /\ p_out.exc = "" =>
       LET path_bonds == PathBonds(mol, p_args.path_atoms)
       IN  /\ Len(p_out.vec) = 7 * ctor_max_length + 7
           /\ \A slot \in 1..ctor_max_length :
                BondBlock(p_out.vec, slot)
                  = IF slot <= Len(path_bonds)
                    THEN bond_featurizer(mol, path_bonds[slot][1])
                    ELSE Zeros(6)
  /\ p_op = "PAGTNBondFeaturizer" /\ p_out.exc = "" =>
       \A k \in 1..Len(p_out.feats) : Len(p_out.feats[k]) = 7 * ctor_max_length + 7

\* C10 (as claimed): when two consecutive atoms of the supplied path have no
\* bond between them, bond_features warns and does not fail; it returns a
\* vector of the full width.
C10_MissingBondOnlyWarns ==
  p_op = "bond_features"
  /\ (\E k \in 1..(Len(p_args.path_atoms) - 1) :
        GetBondBetweenAtoms(mol, p_args.path_atoms[k], p_args.path_atoms[k + 1]) = <<>>)
  => /\ p_out.warnings > 0
     /\ p_out.exc = ""
     /\ Len(p_out.vec) = 7 * pagtn.max_length + 7

====
